---- MODULE Spec2Model ----
(***************************************************************************)
(* Model of parser_sqlmodel.py: one SQLite table Prices(id, name, price),  *)
(* six HTTP handlers over it, and the background parser coroutine.         *)
(*                                                                         *)
(* Scheduling.  Every handler is an `async def` without an await in its    *)
(* body, and the background parser awaits only at run_in_threadpool        *)
(* (line 56) and at asyncio.sleep (line 74).  All of them run on the one   *)
(* event loop of the process, so a handler runs from its first line to its *)
(* return while the parser is suspended at one of its two awaits, and the  *)
(* parser runs lines 57-73 without a handler in between.                   *)
(* The parser's for loop (lines 59-67) is one step of the model, and its   *)
(* commit (line 68) the next.                                              *)
(***************************************************************************)
EXTENDS Integers, Sequences, FiniteSets, TLC

\* ------------------------------------------------------------- bounds
MaxId == 2
MaxLen == 3
MaxPage == 2

\* ------------------------------------------------------------- values
\* Field(default=None): the id of a Prices object that was not flushed yet.
NoId == 0

\* class ItemCreate: the body of a create or update request.
ItemCreate == {[name |-> "Mug A", price |-> 100],
               [name |-> "Mug A", price |-> 200],
               [name |-> "Mug B", price |-> 200]}

\* The (name, price) tuples find_name_and_price can return.
CatalogPairs == {<<"Mug A", 100>>, <<"Mug B", 200>>}

\* What find_name_and_price can return: a list of tuples.
ExtractorOutputs == UNION {[1..n -> CatalogPairs] : n \in 0..MaxLen}

ItemIds == 1..MaxId
PageArgs == 0..MaxPage

VARIABLES
    store,      \* the committed rows of table Prices: a set of [id, name, price]
    pc,         \* where background_parser_async stands
    elements,   \* its local: the list the Extractor returned, kept until
                \* the cycle's commit or failure (it is not read after that)
    new,        \* its session's pending objects (session.new), in add order
    txn,        \* rows its session has INSERTed in its open transaction
    log,        \* the last line the parser printed about a cycle's outcome,
                \* with the number it printed (len(elements), line 69)
    resp,       \* the last HTTP response, with the request it answers
    assigned    \* history: every id a committed row ever had

vars == <<store, pc, elements, new, txn, log, resp, assigned>>

\* ------------------------------------------------------------- the table
Ids(rows) == {r.id : r \in rows}

SetMax(S) == CHOOSE m \in S : \A x \in S : x <= m

\* Variants of NextRowid: the largest id itself; the lowest id not in use.
NextRowidMaxOnly(rows) == IF rows = {} THEN 1 ELSE SetMax(Ids(rows))
NextRowidLowestFree(rows) == CHOOSE n \in 1..(Cardinality(rows) + 1) :
    n \notin Ids(rows) /\ \A m \in 1..(n - 1) : m \in Ids(rows)
\* id is INTEGER PRIMARY KEY without AUTOINCREMENT: SQLite gives a row
\* inserted without id one more than the largest id now in the table
\* (1 in an empty table).
NextRowid(rows) == IF rows = {} THEN 1 ELSE SetMax(Ids(rows)) + 1

\* Prices(name=..., price=...) once INSERTed into `rows`.
InsertRow(rows, name, price) ==
    rows \cup {[id |-> NextRowid(rows), name |-> name, price |-> price]}

\* session.flush(): INSERT the pending objects in the order they were added.
RECURSIVE FlushRows(_, _)
FlushRows(rows, pending) ==
    IF pending = <<>> THEN rows
    ELSE FlushRows(InsertRow(rows, Head(pending).name, Head(pending).price),
                   Tail(pending))

\* Prices(name=name, price=price): a new object, its id not yet assigned.
Prices(name, price) == [id |-> NoId, name |-> name, price |-> price]

\* session.get(Prices, item_id): the rows with that primary key.
SessionGet(rows, item_id) == {r \in rows : r.id = item_id}

\* session.refresh(item): the object reloaded by its primary key.
Refreshed(rows, item_id) == CHOOSE r \in SessionGet(rows, item_id) : TRUE

\* select(Prices).where(Prices.name == name, Prices.price == price)
SelectByNameAndPrice(rows, name, price) ==
    {r \in rows : r.name = name /\ r.price = price}

\* select(Prices): the table scanned in rowid order.
RECURSIVE TableScan(_)
TableScan(rows) ==
    IF rows = {} THEN <<>>
    ELSE LET first == CHOOSE r \in rows : \A q \in rows : r.id <= q.id
         IN  <<first>> \o TableScan(rows \ {first})

\* OFFSET n: drop the first n rows of a result.
RECURSIVE SqlOffset(_, _)
SqlOffset(s, n) ==
    IF n <= 0 \/ s = <<>> THEN s ELSE SqlOffset(Tail(s), n - 1)

\* LIMIT n: keep the first n rows of a result.
RECURSIVE SqlLimit(_, _)
SqlLimit(s, n) ==
    IF n <= 0 \/ s = <<>> THEN <<>> ELSE <<Head(s)>> \o SqlLimit(Tail(s), n - 1)

\* Variant of SelectOffsetLimit: the OFFSET clause dropped.
SelectOffsetLimitNoOffset(rows, offset, limit) == SqlLimit(TableScan(rows), limit)
\* select(Prices).offset(offset).limit(limit)
SelectOffsetLimit(rows, offset, limit) ==
    SqlLimit(SqlOffset(TableScan(rows), offset), limit)

NotFound == [detail |-> "Not found"]

\* ------------------------------------------------------------- scheduling
\* Variant of EventLoopFree: handlers that run beside the parser at any time.
EventLoopFreeAlways == TRUE

\* The event loop can run a handler: the parser task is suspended at an await.
EventLoopFree == pc \in {"Fetching", "Sleeping"}

Init ==
    /\ store = {}
    /\ pc = "NotStarted"
    /\ elements = <<>>
    /\ new = <<>>
    /\ txn = {}
    /\ log = [msg |-> "none", n |-> 0]
    /\ resp = [op |-> "none", req |-> <<>>, status |-> 0, body |-> <<>>]
    /\ assigned = {}

LoopVars == <<pc, elements, new, txn, log>>

\* ------------------------------------------------------------- API handlers
read_prices ==
    /\ EventLoopFree
    /\ resp' = [op |-> "list", req |-> <<>>, status |-> 200,
                body |-> TableScan(store)]
    /\ UNCHANGED <<store, assigned, LoopVars>>

read_prices_offset_limit(offset, limit) ==
    /\ EventLoopFree
    /\ resp' = [op |-> "page", req |-> [offset |-> offset, limit |-> limit],
                status |-> 200,
                body |-> SelectOffsetLimit(store, offset, limit)]
    /\ UNCHANGED <<store, assigned, LoopVars>>

\* What read_item answers on table `rows`: the row, or HTTPException(404).
read_item_response(rows, item_id) ==
    LET item == SessionGet(rows, item_id)
    IN  IF item # {}
        THEN [op |-> "get", req |-> [item_id |-> item_id],
              status |-> 200, body |-> CHOOSE r \in item : TRUE]
        ELSE [op |-> "get", req |-> [item_id |-> item_id],
              status |-> 404, body |-> NotFound]

read_item(item_id) ==
    /\ EventLoopFree
    /\ resp' = read_item_response(store, item_id)
    /\ UNCHANGED <<store, assigned, LoopVars>>

\* Variant of update_item: the session.commit() of line 177 left out.
update_item_no_commit(item_id, new_item) ==
    /\ EventLoopFree
    /\ LET db_item == SessionGet(store, item_id)
           req == [item_id |-> item_id, name |-> new_item.name,
                   price |-> new_item.price]
       IN  resp' = IF db_item # {}
                   THEN [op |-> "update", req |-> req, status |-> 200,
                         body |-> [id |-> item_id, name |-> new_item.name,
                                   price |-> new_item.price]]
                   ELSE [op |-> "update", req |-> req, status |-> 404,
                         body |-> NotFound]
    /\ UNCHANGED <<store, assigned, LoopVars>>

update_item(item_id, new_item) ==
    /\ EventLoopFree
    /\ LET db_item == SessionGet(store, item_id)
           req == [item_id |-> item_id, name |-> new_item.name,
                   price |-> new_item.price]
       IN  IF db_item # {}
           THEN LET old == CHOOSE r \in db_item : TRUE
                    upd == [old EXCEPT !.name = new_item.name,
                                       !.price = new_item.price]
                IN  /\ store' = (store \ {old}) \cup {upd}
                    /\ resp' = [op |-> "update", req |-> req, status |-> 200,
                                body |-> Refreshed(store', item_id)]
           ELSE /\ store' = store
                /\ resp' = [op |-> "update", req |-> req, status |-> 404,
                            body |-> NotFound]
    /\ assigned' = assigned \cup Ids(store')
    /\ UNCHANGED LoopVars

\* Variant of create_item: the session.commit() of line 198 left out.
create_item_no_commit(new_item) ==
    /\ EventLoopFree
    /\ resp' = [op |-> "create",
                req |-> [name |-> new_item.name, price |-> new_item.price],
                status |-> 200, body |-> Prices(new_item.name, new_item.price)]
    /\ UNCHANGED <<store, assigned, LoopVars>>

create_item(new_item) ==
    /\ EventLoopFree
    /\ NextRowid(store) <= MaxId
    /\ LET item == Prices(new_item.name, new_item.price)
           item_id == NextRowid(store)
       IN  /\ store' = FlushRows(store, <<item>>)
           /\ resp' = [op |-> "create",
                       req |-> [name |-> new_item.name, price |-> new_item.price],
                       status |-> 200, body |-> Refreshed(store', item_id)]
    /\ assigned' = assigned \cup Ids(store')
    /\ UNCHANGED LoopVars

\* Variant of delete_item: a DELETE that is not restricted to the row.
delete_item_removes_all(item_id) ==
    /\ EventLoopFree
    /\ SessionGet(store, item_id) # {}
    /\ store' = {}
    /\ resp' = [op |-> "delete", req |-> [item_id |-> item_id],
                status |-> 200, body |-> [status |-> "ok"]]
    /\ UNCHANGED <<assigned, LoopVars>>

delete_item(item_id) ==
    /\ EventLoopFree
    /\ LET db_item == SessionGet(store, item_id)
       IN  IF db_item # {}
           THEN /\ store' = store \ db_item
                /\ resp' = [op |-> "delete", req |-> [item_id |-> item_id],
                            status |-> 200, body |-> [status |-> "ok"]]
           ELSE /\ store' = store
                /\ resp' = [op |-> "delete", req |-> [item_id |-> item_id],
                            status |-> 404, body |-> NotFound]
    /\ UNCHANGED <<assigned, LoopVars>>

\* ------------------------------------------------------------- the parser
\* startup_event: asyncio.create_task(background_parser_async(...)); the task
\* runs to its first await, the Extractor call in the thread pool.
startup_event ==
    /\ pc = "NotStarted"
    /\ pc' = "Fetching"
    /\ UNCHANGED <<store, elements, new, txn, log, resp, assigned>>

\* Variant of Autoflush: a session with autoflush=False.
NoAutoflush(rows, pending) == [rows |-> rows, new |-> pending]
\* session.exec(query) of line 62: the session autoflushes (Session's default
\* autoflush=True), INSERTing the pending objects into its transaction, before
\* it runs the SELECT. [rows: the table as the SELECT sees it, new: what is
\* still pending].
Autoflush(rows, pending) == [rows |-> FlushRows(rows, pending), new |-> <<>>]

\* One pass of the for loop, lines 59-67, on the session state s =
\* [rows: the table as the session's transaction sees it, new: session.new].
LoopBody(s, element) ==
    LET name == element[1]
        price == element[2]
        flushed == Autoflush(s.rows, s.new)
        product_exists == SelectByNameAndPrice(flushed.rows, name, price)
    IN  IF product_exists = {}
        THEN [rows |-> flushed.rows,
              new |-> Append(flushed.new, Prices(name, price))]
        ELSE flushed

\* for name, price in elements: ... (lines 59-67)
RECURSIVE ForLoop(_, _)
ForLoop(s, elems) ==
    IF elems = <<>> THEN s
    ELSE ForLoop(LoopBody(s, Head(elems)), Tail(elems))

\* Line 56 returns a list; line 57 tests it; a non-empty list is worked through
\* in a new session (lines 58-67), which leaves the parser before the commit
\* of line 68; an empty one is reported (line 71) and the parser sleeps.
find_name_and_price_returns(result) ==
    /\ pc = "Fetching"
    /\ NextRowid(store) + Cardinality({result[k] : k \in 1..Len(result)}) - 1 <= MaxId
    /\ IF result # <<>>
       THEN LET s == ForLoop([rows |-> store, new |-> <<>>], result)
            IN  /\ pc' = "Committing"
                /\ elements' = result
                /\ txn' = s.rows \ store
                /\ new' = s.new
                /\ log' = log
       ELSE /\ pc' = "Sleeping"
            /\ elements' = <<>>
            /\ txn' = {}
            /\ new' = <<>>
            /\ log' = [msg |-> "not found", n |-> 0]
    /\ UNCHANGED <<store, resp, assigned>>

\* Variant of find_name_and_price_raises: no except clause, the task ends.
find_name_and_price_propagates ==
    /\ pc = "Fetching"
    /\ pc' = "Dead"
    /\ log' = [msg |-> "error: extractor", n |-> 0]
    /\ UNCHANGED <<store, elements, new, txn, resp, assigned>>

\* Line 56 raises: the except clause prints, and the loop goes to its sleep.
find_name_and_price_raises ==
    /\ pc = "Fetching"
    /\ pc' = "Sleeping"
    /\ log' = [msg |-> "error: extractor", n |-> 0]
    /\ UNCHANGED <<store, elements, new, txn, resp, assigned>>

\* session.commit() of line 68, then the print of line 69.
commit_batch ==
    /\ pc = "Committing"
    /\ store' = FlushRows(store \cup txn, new)
    /\ assigned' = assigned \cup Ids(store')
    /\ txn' = {}
    /\ new' = <<>>
    /\ pc' = "Sleeping"
    /\ log' = [msg |-> "added", n |-> Len(elements)]
    /\ elements' = <<>>
    /\ UNCHANGED resp

\* Variant of store_raises: no except clause, the task ends.
store_raises_propagates ==
    /\ pc = "Committing"
    /\ pc' = "Dead"
    /\ log' = [msg |-> "error: store", n |-> 0]
    /\ UNCHANGED <<store, elements, new, txn, resp, assigned>>

\* A statement of lines 58-68 raises (the database file cannot be read or
\* written): the with block closes the session, which rolls its transaction
\* back, and the except clause prints.
store_raises ==
    /\ pc = "Committing"
    /\ txn' = {}
    /\ new' = <<>>
    /\ pc' = "Sleeping"
    /\ log' = [msg |-> "error: store", n |-> 0]
    /\ elements' = <<>>
    /\ UNCHANGED <<store, resp, assigned>>

\* asyncio.sleep(12 * 60 * 60) of line 74 is over: back to line 54.
sleep_over ==
    /\ pc = "Sleeping"
    /\ pc' = "Fetching"
    /\ UNCHANGED <<store, elements, new, txn, log, resp, assigned>>

background_parser_async ==
    \/ \E result \in ExtractorOutputs : find_name_and_price_returns(result)
    \/ find_name_and_price_raises
    \/ commit_batch
    \/ store_raises
    \/ sleep_over

ApiRequest ==
    \/ read_prices
    \/ \E offset \in PageArgs, limit \in PageArgs :
          read_prices_offset_limit(offset, limit)
    \/ \E item_id \in ItemIds : read_item(item_id)
    \/ \E item_id \in ItemIds, new_item \in ItemCreate : update_item(item_id, new_item)
    \/ \E new_item \in ItemCreate : create_item(new_item)
    \/ \E item_id \in ItemIds : delete_item(item_id)

Next ==
    \/ startup_event
    \/ background_parser_async
    \/ ApiRequest

Spec == Init /\ [][Next]_vars

\* The event loop resumes the parser task whenever it can run: the Extractor
\* call returns or raises, the store statements finish, the sleep ends.
LiveSpec == Spec /\ WF_vars(startup_event) /\ WF_vars(background_parser_async)

\* ------------------------------------------------------------- properties
Min(a, b) == IF a <= b THEN a ELSE b

Range(s) == {s[k] : k \in 1..Len(s)}

\* C1: in every reachable store state and for every (name, price), create adds
\* exactly one row carrying that name and price with a non-null id, leaves
\* every other row unchanged, and a get-by-id issued right after with the
\* returned id returns the same (id, name, price).
C1_CreateThenGet ==
    /\ [][\A new_item \in ItemCreate : create_item(new_item) =>
            LET made == resp'.body
            IN  /\ made.id # NoId
                /\ made.name = new_item.name
                /\ made.price = new_item.price
                /\ made.id \notin Ids(store)
                /\ store' = store \cup {made}
                /\ Cardinality(store') = Cardinality(store) + 1
                /\ read_item_response(store', made.id).status = 200
                /\ read_item_response(store', made.id).body = made]_vars
    /\ [][\A item_id \in ItemIds :
            (resp.op = "create" /\ item_id = resp.body.id /\ read_item(item_id))
            => (resp'.status = 200 /\ resp'.body = resp.body)]_vars

\* C1 witness: a create answered with a row that sits in the store beside an
\* older row.
C1_Witness ==
    /\ resp.op = "create"
    /\ resp.status = 200
    /\ resp.body \in store
    /\ resp.body.id = 2
    /\ \E r \in store : r.id = 1

\* C2: update with an id present in the store replaces only that row's name
\* and price, keeps its id, and leaves every other row unchanged; update with
\* an id not present answers not-found and leaves the whole store unchanged.
C2_UpdateFrame ==
    [][\A item_id \in ItemIds, new_item \in ItemCreate :
         update_item(item_id, new_item) =>
           IF item_id \in Ids(store)
           THEN /\ resp'.status = 200
                /\ resp'.body = [id |-> item_id, name |-> new_item.name,
                                 price |-> new_item.price]
                /\ SessionGet(store', item_id) = {resp'.body}
                /\ Ids(store') = Ids(store)
                /\ \A r \in store : r.id # item_id => r \in store'
                /\ \A r \in store' : r.id # item_id => r \in store
           ELSE /\ resp'.status = 404
                /\ store' = store]_vars

\* C2 witness: an update answered 200 whose row carries the requested name and
\* price while another row of the store carries a different pair.
C2_Witness ==
    /\ resp.op = "update"
    /\ resp.status = 200
    /\ resp.body \in store
    /\ resp.body.name = resp.req.name
    /\ \E r \in store : r.id # resp.req.item_id /\ r.name # resp.req.name

\* C3: for every id present in the store, delete(id) succeeds, removes exactly
\* the row with that id and no other, and a get-by-id with that id issued
\* right after answers not-found; delete with an id not present answers
\* not-found and leaves the store unchanged.
C3_DeleteThenGet ==
    [][\A item_id \in ItemIds : delete_item(item_id) =>
         IF item_id \in Ids(store)
         THEN /\ resp'.status = 200
              /\ store' = {r \in store : r.id # item_id}
              /\ Cardinality(store') = Cardinality(store) - 1
              /\ read_item_response(store', item_id).status = 404
         ELSE /\ resp'.status = 404
              /\ store' = store]_vars

\* C3 witness: a delete of id 1 answered 200, its row gone, the row with id 2
\* still there.
C3_Witness ==
    /\ resp.op = "delete"
    /\ resp.status = 200
    /\ resp.req.item_id = 1
    /\ Ids(store) = {2}

\* C4: for every store state with totalCount rows and every offset >= 0 and
\* limit >= 0, list-page returns an empty sequence when offset >= totalCount
\* and exactly min(limit, totalCount - offset) rows otherwise, and it never
\* changes the store.
C4_PageLength ==
    [][\A offset \in PageArgs, limit \in PageArgs :
         read_prices_offset_limit(offset, limit) =>
           LET totalCount == Cardinality(store)
               page == resp'.body
           IN  /\ offset >= totalCount => page = <<>>
               /\ offset < totalCount =>
                    Len(page) = Min(limit, totalCount - offset)
               /\ Range(page) \subseteq store
               /\ Cardinality(Range(page)) = Len(page)
               /\ store' = store]_vars

\* C4 witness: offset 1 and limit 2 on a two-row store: a page of the one row
\* that is left after the offset.
C4_Witness ==
    /\ resp.op = "page"
    /\ resp.req.offset = 1
    /\ resp.req.limit = 2
    /\ Len(resp.body) = 1
    /\ Cardinality(store) = 2
    /\ resp.body[1] \in store
    /\ resp.body[1].id = 2

\* The rows of `rows` that carry the pair p = <<name, price>>.
RowsOf(rows, p) == SelectByNameAndPrice(rows, p[1], p[2])

\* The Extractor output of the example: the same pair twice, then another.
ExampleOutput == <<(<<"Mug A", 100>>), (<<"Mug A", 100>>), (<<"Mug B", 200>>)>>

C6_ExtractorFailure ==
    [][find_name_and_price_raises =>
         /\ store' = store
         /\ txn' = {} /\ new' = <<>>
         /\ pc' = "Sleeping"]_vars

\* C6 witness: the parser sleeps after an Extractor failure, the store intact.
C6_Witness ==
    /\ pc = "Sleeping"
    /\ log.msg = "error: extractor"
    /\ Cardinality(store) = 2

\* C7: in every reachable state, under any interleaving of API create, update
\* and delete and ingestion cycles, no two rows of the store share an id, and
\* no operation changes the id of a row that stays in the store.
C7_IdUniqueAndStable ==
    /\ [](\A r, q \in store \cup txn : r.id = q.id => r = q)
    /\ [](\A r \in store \cup txn : r.id # NoId)
    /\ [][\/ store \subseteq store'
          \/ store' \subseteq store
          \/ /\ Ids(store') = Ids(store)
             /\ Cardinality(store') = Cardinality(store)]_vars

\* C7 witness: two rows with two ids and the same pair, after an ingestion
\* cycle and an update.
C7_Witness ==
    /\ Ids(store) = {1, 2}
    /\ Cardinality(store) = 2
    /\ \E r, q \in store : r.id # q.id /\ r.name = q.name /\ r.price = q.price
    /\ resp.op = "update"
    /\ resp.status = 200
    /\ log.msg = "added"

\* C8: once started, the parser alternates between Fetching and Sleeping
\* forever: it has no terminal state, every Fetching phase is followed by a
\* Sleeping phase and every Sleeping phase by a Fetching phase, whether the
\* cycle succeeded, found nothing, or failed in the Extractor or in the store.
C8_AlternatesForever ==
    /\ [](pc # "NotStarted" => ENABLED background_parser_async)
    /\ (pc \in {"Fetching", "Committing"}) ~> (pc = "Sleeping")
    /\ (pc = "Sleeping") ~> (pc = "Fetching")

\* C8 witness: the parser sleeps after a cycle that failed in the store, and
\* an earlier cycle had committed rows.
C8_Witness ==
    /\ pc = "Sleeping"
    /\ log.msg = "error: store"
    /\ store # {}
    /\ resp.op = "none"

\* C9 as stated: between the parser's existence check for a pair and the
\* commit of its insert, an API create can take effect.
C9_CreateBetweenCheckAndCommit ==
    (pc = "Committing" /\ new # <<>>) =>
        ENABLED (\E new_item \in ItemCreate : create_item(new_item))

\* C9 amended: the parser's check and insert are not guarded by a constraint
\* of the table, but no API request runs between the first check of a cycle
\* and its commit, so every row a cycle commits carries a pair that no row of
\* the store carries at the commit, and no two rows it commits share a pair.
C9_NoRequestInsideBatch ==
    /\ [](pc = "Committing" => ~ENABLED ApiRequest)
    /\ [][commit_batch =>
            \A r \in store' \ store :
                /\ RowsOf(store, <<r.name, r.price>>) = {}
                /\ RowsOf(store', <<r.name, r.price>>) = {r}]_vars

\* C9 witness: an API create of a pair took effect while the Extractor ran;
\* the parser's check of that pair then found the row and added nothing.
C9_Witness ==
    /\ pc = "Committing"
    /\ resp.op = "create"
    /\ resp.body \in store
    /\ elements = <<(<<resp.req.name, resp.req.price>>)>>
    /\ new = <<>>
    /\ txn = {}

====
